---- MODULE Spec2Model ----
(***************************************************************************)
(* Model of moe/views/schemas.py: the colander schemas that validate the   *)
(* request and response payloads of the MOE REST endpoints.                *)
(*                                                                         *)
(* A payload (cstruct) and a normalized structure (appstruct) are tagged   *)
(* values.  A number is an integer count of hundredths, so 0.5 is Num(50)  *)
(* and the integer 1 is Num(100).  A schema node is a record               *)
(*   [typ, unknown, children, validator, missing]                          *)
(* and Deserialize is SchemaNode.deserialize applied to it.                *)
(*                                                                         *)
(* ``missing=`` values that are Python dicts or lists are objects: the     *)
(* node holds a reference to them, every deserialization that needs the    *)
(* default returns that reference, and the variable heap maps each         *)
(* reference to the object's present content.                              *)
(***************************************************************************)
EXTENDS Integers, Sequences, FiniteSets, TLC

VARIABLES heap, call, held, recheck

vars == <<heap, call, held, recheck>>

\* Length of the sequences (sampled points, domain bounds) of the payloads.
MaxLen == 2

\* Number of writes a caller makes to a structure it kept.
MaxWrites == 1

(***************************************************************************)
(* Values                                                                  *)
(***************************************************************************)
None == [k |-> "none"]
null == [k |-> "null"]
required == [k |-> "required"]
Inf == [k |-> "inf"]
NegInf == [k |-> "-inf"]
NaN == [k |-> "nan"]
Bool(b) == [k |-> "bool", b |-> b]
Num(n) == [k |-> "num", n |-> n]
Whole(i) == Num(100 * i)
Str(s) == [k |-> "str", s |-> s]
List(l) == [k |-> "list", l |-> l]
Map(m) == [k |-> "map", m |-> m]
Ref(id) == [k |-> "ref", id |-> id]
EmptyMap == Map(<<>>)

Put(m, key, v) == [x \in (DOMAIN m) \cup {key} |-> IF x = key THEN v ELSE m[x]]
Del(m, key) == [x \in (DOMAIN m) \ {key} |-> m[x]]

\* Python truthiness of a value: "not cstruct".
Falsy(c) ==
    \/ c.k \in {"none", "null"}
    \/ c.k = "num" /\ c.n = 0
    \/ c.k = "bool" /\ ~c.b
    \/ c.k = "str" /\ c.s = ""
    \/ c.k = "list" /\ c.l = <<>>
    \/ c.k = "map" /\ DOMAIN c.m = {}

\* a < b on Python floats; every comparison with NaN is False.
Less(a, b) ==
    CASE a.k = "nan" \/ b.k = "nan" -> FALSE
      [] a.k = "-inf" -> b.k # "-inf"
      [] b.k = "-inf" -> FALSE
      [] a.k = "inf" -> FALSE
      [] b.k = "inf" -> TRUE
      [] OTHER -> a.n < b.n

(***************************************************************************)
(* colander: outcomes, validators, types                                   *)
(***************************************************************************)
Ok(v) == [ok |-> TRUE, val |-> v, errs |-> {}]
Invalid(path, msg) == [ok |-> FALSE, val |-> null, errs |-> {[path |-> path, msg |-> msg]}]
Fail(errs) == [ok |-> FALSE, val |-> null, errs |-> errs]

NoValidator == [v |-> "none"]
Range(min, max) == [v |-> "Range", min |-> min, max |-> max]
OneOf(choices) == [v |-> "OneOf", choices |-> choices]

Field(name, node) == [name |-> name, node |-> node]

SchemaNode(typ, validator, missing) ==
    [typ |-> typ, unknown |-> "", children |-> <<>>,
     validator |-> validator, missing |-> missing]

SequenceSchema(child, missing) ==
    [typ |-> "Sequence", unknown |-> "", children |-> <<Field("item", child)>>,
     validator |-> NoValidator, missing |-> missing]

Mapping(unknown, children, missing) ==
    [typ |-> "Mapping", unknown |-> unknown, children |-> children,
     validator |-> NoValidator, missing |-> missing]

\* The validator of a node applied to the deserialized value; the set of
\* messages it raises.
RunValidator(validator, v) ==
    CASE validator.v = "none" -> {}
      [] validator.v = "Range" ->
            IF validator.min # None /\ Less(v, validator.min)
            THEN {"is less than minimum value"}
            ELSE IF validator.max # None /\ Less(validator.max, v)
                 THEN {"is greater than maximum value"}
                 ELSE {}
      [] validator.v = "OneOf" ->
            IF v \in validator.choices THEN {} ELSE {"is not one of"}
      [] validator.v = "PositiveFloat" ->
            IF Less(Num(0), v) /\ Less(v, Inf) THEN {}
            ELSE {"must be positive and finite"}

\* int(x): truncation toward zero.
Trunc(n) == IF n >= 0 THEN (n \div 100) * 100 ELSE -(((-n) \div 100) * 100)

\* Number.deserialize with num = float or int; "cstruct != 0 and not cstruct"
\* is the null case.
NumberDeserialize(typ, c, path) ==
    IF c.k \notin {"num", "bool"} /\ Falsy(c) THEN Ok(null)
    ELSE CASE c.k = "num" -> Ok(IF typ = "Int" THEN Num(Trunc(c.n)) ELSE c)
           [] c.k = "bool" -> Ok(IF c.b THEN Num(100) ELSE Num(0))
           [] c.k \in {"inf", "-inf", "nan"} ->
                 IF typ = "Int" THEN Invalid(path, "is not a number") ELSE Ok(c)
           [] OTHER -> Invalid(path, "is not a number")

\* String.deserialize.
StringDeserialize(c, path) ==
    IF Falsy(c) THEN Ok(null)
    ELSE CASE c.k = "str" -> Ok(c)
           [] c.k = "num" -> Ok(Str(ToString(c.n)))
           [] c.k = "bool" -> Ok(Str("True"))
           [] OTHER -> Ok(Str(c.k))

RECURSIVE Deserialize(_, _, _)

MappingImpl_first_error(node, m, path) ==
    LET n == Len(node.children)
        names == {node.children[i].name : i \in 1..n}
        sub == [i \in 1..n |->
                  Deserialize(node.children[i].node,
                              IF node.children[i].name \in DOMAIN m
                              THEN m[node.children[i].name] ELSE null,
                              path \o <<node.children[i].name>>)]
        bad == {i \in 1..n : ~sub[i].ok}
        idx(name) == CHOOSE i \in 1..n : node.children[i].name = name
        unknownKeys == (DOMAIN m) \ names
        result == [x \in names \cup (IF node.unknown = "preserve" THEN unknownKeys ELSE {})
                     |-> IF x \in names THEN sub[idx(x)].val ELSE m[x]]
    IN  IF bad # {} THEN Fail(sub[CHOOSE i \in bad : \A j \in bad : i <= j].errs)
        ELSE IF node.unknown = "raise" /\ unknownKeys # {}
             THEN Invalid(path, "Unrecognized keys in mapping")
             ELSE Ok(Map(result))

\* Mapping._impl
MappingImpl(node, m, path) ==
    LET n == Len(node.children)
        names == {node.children[i].name : i \in 1..n}
        sub == [i \in 1..n |->
                  Deserialize(node.children[i].node,
                              IF node.children[i].name \in DOMAIN m
                              THEN m[node.children[i].name] ELSE null,
                              path \o <<node.children[i].name>>)]
        errs == UNION {sub[i].errs : i \in 1..n}
        idx(name) == CHOOSE i \in 1..n : node.children[i].name = name
        unknownKeys == (DOMAIN m) \ names
        result == [x \in names \cup (IF node.unknown = "preserve" THEN unknownKeys ELSE {})
                     |-> IF x \in names THEN sub[idx(x)].val ELSE m[x]]
    IN  IF node.unknown = "raise" /\ unknownKeys # {}
        THEN Invalid(path, "Unrecognized keys in mapping")
        ELSE IF errs # {} THEN Fail(errs) ELSE Ok(Map(result))

\* Sequence._impl
SequenceImpl(node, l, path) ==
    LET sub == [i \in 1..Len(l) |->
                  Deserialize(node.children[1].node, l[i], path \o <<ToString(i - 1)>>)]
        errs == UNION {sub[i].errs : i \in 1..Len(l)}
    IN  IF errs # {} THEN Fail(errs)
        ELSE Ok(List([i \in 1..Len(l) |-> sub[i].val]))

\* typ.deserialize(node, cstruct)
TypDeserialize(node, c, path) ==
    CASE node.typ = "Mapping" ->
            IF c = null THEN Ok(null)
            ELSE IF c.k # "map" THEN Invalid(path, "is not a mapping type")
            ELSE MappingImpl(node, c.m, path)
      [] node.typ = "Sequence" ->
            IF c = null THEN Ok(null)
            ELSE IF c.k # "list" THEN Invalid(path, "is not iterable")
            ELSE SequenceImpl(node, c.l, path)
      [] node.typ = "String" -> StringDeserialize(c, path)
      [] OTHER -> NumberDeserialize(node.typ, c, path)

\* SchemaNode.deserialize: the type's deserialization, then the missing
\* value when it gave null, else the validator.
Deserialize(node, c, path) ==
    LET r == TypDeserialize(node, c, path)
    IN  IF ~r.ok THEN r
        ELSE IF r.val = null
             THEN IF node.missing = required THEN Invalid(path, "Required")
                  ELSE Ok(node.missing)
             ELSE LET msgs == RunValidator(node.validator, r.val)
                  IN  IF msgs = {} THEN r
                      ELSE Fail({[path |-> path, msg |-> x] : x \in msgs})

deserialize(node, c) == Deserialize(node, c, <<>>)


(***************************************************************************)
(* moe.optimal_learning.python.constant (imported at line 13)              *)
(***************************************************************************)
NULL_OPTIMIZER == Str("null_optimizer")
NEWTON_OPTIMIZER == Str("newton_optimizer")
GRADIENT_DESCENT_OPTIMIZER == Str("gradient_descent_optimizer")
OPTIMIZER_TYPES == {NULL_OPTIMIZER, NEWTON_OPTIMIZER, GRADIENT_DESCENT_OPTIMIZER}
TENSOR_PRODUCT_DOMAIN_TYPE == Str("tensor_product")
DOMAIN_TYPES == {TENSOR_PRODUCT_DOMAIN_TYPE, Str("simplex_intersect_tensor_product")}
SQUARE_EXPONENTIAL_COVARIANCE_TYPE == Str("square_exponential")
COVARIANCE_TYPES == {SQUARE_EXPONENTIAL_COVARIANCE_TYPE}
LOG_MARGINAL_LIKELIHOOD == Str("log_marginal_likelihood")
LIKELIHOOD_TYPES == {LOG_MARGINAL_LIKELIHOOD, Str("leave_one_out_log_likelihood")}
DEFAULT_CONSTANT_LIAR_METHOD == Str("constant_liar_min")
CONSTANT_LIAR_METHODS ==
    {DEFAULT_CONSTANT_LIAR_METHOD, Str("constant_liar_max"), Str("constant_liar_mean")}
DEFAULT_EXPECTED_IMPROVEMENT_MC_ITERATIONS == Whole(10000)
DEFAULT_MAX_NUM_THREADS == Whole(1)
MAX_ALLOWED_NUM_THREADS == Whole(10000)
DEFAULT_CONSTANT_LIAR_LIE_NOISE_VARIANCE == Num(0)
DEFAULT_KRIGING_NOISE_VARIANCE == Num(0)
DEFAULT_KRIGING_STD_DEVIATION_COEF == Num(0)

(***************************************************************************)
(* The schemas                                                             *)
(***************************************************************************)
schema_type_ignore == "ignore"

\* StrictMappingSchema.schema_type: colander.Mapping(unknown='raise')
schema_type == "raise"

StrictMappingSchema(children, missing) == Mapping(schema_type, children, missing)

PositiveFloat_nonnegative == SchemaNode("Float", Range(Num(0), None), required)

PositiveFloat == SchemaNode("Float", [v |-> "PositiveFloat"], required)

ListOfPositiveFloats(missing) == SequenceSchema(PositiveFloat, missing)

ListOfFloats == SequenceSchema(SchemaNode("Float", NoValidator, required), required)

SinglePoint_value_var_unchecked == SchemaNode("Float", NoValidator, Num(0))

SinglePoint_value_var == SchemaNode("Float", Range(Num(0), None), Num(0))

SinglePoint ==
    StrictMappingSchema(
        <<Field("point", ListOfFloats),
          Field("value", SchemaNode("Float", NoValidator, required)),
          Field("value_var", SinglePoint_value_var)>>,
        required)

PointsSampled == SequenceSchema(SinglePoint, required)

DomainCoordinate ==
    StrictMappingSchema(
        <<Field("min", SchemaNode("Float", NoValidator, required)),
          Field("max", SchemaNode("Float", NoValidator, required))>>,
        required)

Domain == SequenceSchema(DomainCoordinate, required)

DomainInfo_dim_positive ==
    StrictMappingSchema(
        <<Field("domain_type",
                SchemaNode("String", OneOf(DOMAIN_TYPES), TENSOR_PRODUCT_DOMAIN_TYPE)),
          Field("dim", SchemaNode("Int", Range(Whole(1), None), required))>>,
        required)

DomainInfo ==
    StrictMappingSchema(
        <<Field("domain_type",
                SchemaNode("String", OneOf(DOMAIN_TYPES), TENSOR_PRODUCT_DOMAIN_TYPE)),
          Field("dim", SchemaNode("Int", Range(Whole(0), None), required))>>,
        required)

BoundedDomainInfo_bounds_optional ==
    StrictMappingSchema(
        DomainInfo.children \o
        <<Field("domain_bounds", SequenceSchema(DomainCoordinate, List(<<>>)))>>,
        required)

BoundedDomainInfo ==
    StrictMappingSchema(DomainInfo.children \o <<Field("domain_bounds", Domain)>>, required)

GradientDescentParametersSchema ==
    StrictMappingSchema(
        <<Field("max_num_steps", SchemaNode("Int", Range(Whole(1), None), required)),
          Field("max_num_restarts", SchemaNode("Int", Range(Whole(1), None), required)),
          Field("num_steps_averaged", SchemaNode("Int", Range(Whole(0), None), required)),
          Field("gamma", SchemaNode("Float", Range(Num(0), None), required)),
          Field("pre_mult", SchemaNode("Float", Range(Num(0), None), required)),
          Field("max_relative_change", SchemaNode("Float", Range(Num(0), Num(100)), required)),
          Field("tolerance", SchemaNode("Float", Range(Num(0), None), required))>>,
        required)

\* time_factor: on the grid of hundredths, v < 1.0e-16 exactly when v < 0.01.
NewtonParametersSchema ==
    StrictMappingSchema(
        <<Field("max_num_steps", SchemaNode("Int", Range(Whole(1), None), required)),
          Field("gamma", SchemaNode("Float", Range(Num(100), None), required)),
          Field("time_factor", SchemaNode("Float", Range(Num(1), None), required)),
          Field("max_relative_change", SchemaNode("Float", Range(Num(0), Num(100)), required)),
          Field("tolerance", SchemaNode("Float", Range(Num(0), None), required))>>,
        required)

NullParametersSchema == StrictMappingSchema(<<>>, required)

CovarianceInfo(missing) ==
    StrictMappingSchema(
        <<Field("covariance_type",
                SchemaNode("String", OneOf(COVARIANCE_TYPES),
                           SQUARE_EXPONENTIAL_COVARIANCE_TYPE)),
          Field("hyperparameters", ListOfPositiveFloats(None))>>,
        missing)

GpHistoricalInfo == StrictMappingSchema(<<Field("points_sampled", PointsSampled)>>, required)

ListOfPointsInDomain(missing) == SequenceSchema(ListOfFloats, missing)

ListOfExpectedImprovements ==
    SequenceSchema(SchemaNode("Float", Range(Num(0), None), required), required)

MatrixOfFloats == SequenceSchema(ListOfFloats, required)

OPTIMIZER_TYPES_TO_SCHEMA_CLASSES_conflated(tag) ==
    CASE tag = NULL_OPTIMIZER -> NullParametersSchema
      [] tag = NEWTON_OPTIMIZER -> GradientDescentParametersSchema
      [] tag = GRADIENT_DESCENT_OPTIMIZER -> GradientDescentParametersSchema

OPTIMIZER_TYPES_TO_SCHEMA_CLASSES(tag) ==
    CASE tag = NULL_OPTIMIZER -> NullParametersSchema
      [] tag = NEWTON_OPTIMIZER -> NewtonParametersSchema
      [] tag = GRADIENT_DESCENT_OPTIMIZER -> GradientDescentParametersSchema

OptimizerInfo_optimizer_type_defaulted ==
    SchemaNode("String", OneOf(OPTIMIZER_TYPES), GRADIENT_DESCENT_OPTIMIZER)

OptimizerInfo_optimizer_type == SchemaNode("String", OneOf(OPTIMIZER_TYPES), None)

OptimizerInfo_optimizer_parameters_ignore == Mapping("ignore", <<>>, None)

OptimizerInfo_optimizer_parameters == Mapping("preserve", <<>>, None)

OptimizerInfo(missing) ==
    StrictMappingSchema(
        <<Field("optimizer_type", OptimizerInfo_optimizer_type),
          Field("num_multistarts", SchemaNode("Int", Range(Whole(1), None), None)),
          Field("num_random_samples", SchemaNode("Int", Range(Whole(0), None), None)),
          Field("optimizer_parameters", OptimizerInfo_optimizer_parameters)>>,
        missing)

GpNextPointsRequest_num_to_sample_zero ==
    SchemaNode("Int", Range(Whole(1), None), Whole(0))

GpNextPointsRequest_num_to_sample == SchemaNode("Int", Range(Whole(1), None), Whole(1))

GpNextPointsRequest ==
    StrictMappingSchema(
        <<Field("num_to_sample", GpNextPointsRequest_num_to_sample),
          Field("mc_iterations",
                SchemaNode("Int", Range(Whole(1), None),
                           DEFAULT_EXPECTED_IMPROVEMENT_MC_ITERATIONS)),
          Field("max_num_threads",
                SchemaNode("Int", Range(Whole(1), MAX_ALLOWED_NUM_THREADS),
                           DEFAULT_MAX_NUM_THREADS)),
          Field("gp_historical_info", GpHistoricalInfo),
          Field("domain_info", BoundedDomainInfo),
          Field("covariance_info",
                CovarianceInfo(Ref("GpNextPointsRequest.covariance_info"))),
          Field("optimizer_info",
                OptimizerInfo(Ref("GpNextPointsRequest.optimizer_info"))),
          Field("points_being_sampled",
                ListOfPointsInDomain(Ref("GpNextPointsRequest.points_being_sampled")))>>,
        required)

GpNextPointsConstantLiarRequest ==
    StrictMappingSchema(
        GpNextPointsRequest.children \o
        <<Field("lie_method",
                SchemaNode("String", OneOf(CONSTANT_LIAR_METHODS),
                           DEFAULT_CONSTANT_LIAR_METHOD)),
          Field("lie_value", SchemaNode("Float", NoValidator, None)),
          Field("lie_noise_variance",
                SchemaNode("Float", Range(Num(0), None),
                           DEFAULT_CONSTANT_LIAR_LIE_NOISE_VARIANCE))>>,
        required)

GpNextPointsKrigingRequest_noise_required ==
    StrictMappingSchema(
        GpNextPointsRequest.children \o
        <<Field("std_deviation_coef",
                SchemaNode("Float", NoValidator, DEFAULT_KRIGING_STD_DEVIATION_COEF)),
          Field("kriging_noise_variance",
                SchemaNode("Float", Range(Num(0), None), required))>>,
        required)

GpNextPointsKrigingRequest ==
    StrictMappingSchema(
        GpNextPointsRequest.children \o
        <<Field("std_deviation_coef",
                SchemaNode("Float", NoValidator, DEFAULT_KRIGING_STD_DEVIATION_COEF)),
          Field("kriging_noise_variance",
                SchemaNode("Float", Range(Num(0), None), DEFAULT_KRIGING_NOISE_VARIANCE))>>,
        required)

GpNextPointsStatus_optimizer_success_closed == Mapping("raise", <<>>, required)

\* colander.SchemaNode(colander.Mapping(unknown='preserve'), default=...):
\* default= is for serialization; without missing= the node is required.
GpNextPointsStatus_optimizer_success == Mapping("preserve", <<>>, required)

GpNextPointsStatus ==
    StrictMappingSchema(
        <<Field("expected_improvement", SchemaNode("Float", Range(Num(0), None), required)),
          Field("optimizer_success", GpNextPointsStatus_optimizer_success)>>,
        required)

GpNextPointsResponse ==
    StrictMappingSchema(
        <<Field("endpoint", SchemaNode("String", NoValidator, required)),
          Field("points_to_sample", ListOfPointsInDomain(required)),
          Field("status", GpNextPointsStatus)>>,
        required)

GpHyperOptRequest_domains_swapped ==
    StrictMappingSchema(
        <<Field("max_num_threads",
                SchemaNode("Int", Range(Whole(1), MAX_ALLOWED_NUM_THREADS),
                           DEFAULT_MAX_NUM_THREADS)),
          Field("gp_historical_info", GpHistoricalInfo),
          Field("domain_info", BoundedDomainInfo),
          Field("covariance_info",
                CovarianceInfo(Ref("GpHyperOptRequest.covariance_info"))),
          Field("hyperparameter_domain_info", DomainInfo),
          Field("optimizer_info",
                OptimizerInfo(Ref("GpHyperOptRequest.optimizer_info"))),
          Field("log_likelihood_info",
                SchemaNode("String", OneOf(LIKELIHOOD_TYPES), LOG_MARGINAL_LIKELIHOOD))>>,
        required)

GpHyperOptRequest ==
    StrictMappingSchema(
        <<Field("max_num_threads",
                SchemaNode("Int", Range(Whole(1), MAX_ALLOWED_NUM_THREADS),
                           DEFAULT_MAX_NUM_THREADS)),
          Field("gp_historical_info", GpHistoricalInfo),
          Field("domain_info", DomainInfo),
          Field("covariance_info",
                CovarianceInfo(Ref("GpHyperOptRequest.covariance_info"))),
          Field("hyperparameter_domain_info", BoundedDomainInfo),
          Field("optimizer_info",
                OptimizerInfo(Ref("GpHyperOptRequest.optimizer_info"))),
          Field("log_likelihood_info",
                SchemaNode("String", OneOf(LIKELIHOOD_TYPES), LOG_MARGINAL_LIKELIHOOD))>>,
        required)

GpHyperOptStatus ==
    StrictMappingSchema(
        <<Field("log_likelihood", SchemaNode("Float", NoValidator, required)),
          Field("grad_log_likelihood", ListOfFloats),
          Field("optimizer_success", Mapping("preserve", <<>>, required))>>,
        required)

GpHyperOptResponse ==
    StrictMappingSchema(
        <<Field("endpoint", SchemaNode("String", NoValidator, required)),
          Field("covariance_info", CovarianceInfo(required)),
          Field("status", GpHyperOptStatus)>>,
        required)

GpMeanVarRequest_domain_info_optional ==
    StrictMappingSchema(
        <<Field("domain_type",
                SchemaNode("String", OneOf(DOMAIN_TYPES), TENSOR_PRODUCT_DOMAIN_TYPE)),
          Field("dim", SchemaNode("Int", Range(Whole(0), None), required))>>,
        None)

GpMeanVarRequest_domain_info == DomainInfo

GpMeanVarRequest ==
    StrictMappingSchema(
        <<Field("points_to_sample", ListOfPointsInDomain(required)),
          Field("gp_historical_info", GpHistoricalInfo),
          Field("domain_info", GpMeanVarRequest_domain_info),
          Field("covariance_info",
                CovarianceInfo(Ref("GpMeanVarRequest.covariance_info")))>>,
        required)

(***************************************************************************)
(* The response classes.  A class statement gives the class its own       *)
(* schema nodes and its bases; colander's metaclass collects the nodes of *)
(* the classes of the method resolution order, last class first, and a    *)
(* node replaces an earlier node of the same name.                        *)
(***************************************************************************)
GpEndpointResponse ==
    StrictMappingSchema(<<Field("endpoint", SchemaNode("String", NoValidator, required))>>,
                        required)

GpMeanMixinResponse == StrictMappingSchema(<<Field("mean", ListOfFloats)>>, required)

GpVarMixinResponse_diag == StrictMappingSchema(<<Field("var", ListOfFloats)>>, required)

GpVarMixinResponse == StrictMappingSchema(<<Field("var", MatrixOfFloats)>>, required)

GpVarDiagMixinResponse_mean == StrictMappingSchema(<<Field("mean", ListOfFloats)>>, required)

GpVarDiagMixinResponse == StrictMappingSchema(<<Field("var", ListOfFloats)>>, required)

ComposedResponses ==
    {"GpMeanResponse", "GpVarResponse", "GpVarDiagResponse", "GpMeanVarResponse",
     "GpMeanVarDiagResponse"}

\* The bases of the class statements.
Bases(cls) ==
    CASE cls = "GpMeanResponse" -> <<"GpEndpointResponse", "GpMeanMixinResponse">>
      [] cls = "GpVarResponse" -> <<"GpEndpointResponse", "GpVarMixinResponse">>
      [] cls = "GpVarDiagResponse" -> <<"GpEndpointResponse", "GpVarDiagMixinResponse">>
      [] cls = "GpMeanVarResponse" -> <<"GpMeanResponse", "GpVarMixinResponse">>
      [] cls = "GpMeanVarDiagResponse" -> <<"GpMeanResponse", "GpVarDiagMixinResponse">>
      [] cls = "StrictMappingSchema" -> <<>>
      [] OTHER -> <<"StrictMappingSchema">>

\* The schema nodes in the body of a class statement (__class_schema_nodes__).
ClassSchemaNodes(cls) ==
    CASE cls = "GpEndpointResponse" -> GpEndpointResponse.children
      [] cls = "GpMeanMixinResponse" -> GpMeanMixinResponse.children
      [] cls = "GpVarMixinResponse" -> GpVarMixinResponse.children
      [] cls = "GpVarDiagMixinResponse" -> GpVarDiagMixinResponse.children
      [] OTHER -> <<>>

\* The merge of the C3 linearization: the head of the first sequence that is
\* in the tail of no sequence, then the merge of the rest.
RECURSIVE Merge(_)
Merge(seqs) ==
    LET live == SelectSeq(seqs, LAMBDA q : q # <<>>)
        good(i) == \A j \in 1..Len(live) :
                      \A k \in 2..Len(live[j]) : live[j][k] # Head(live[i])
    IN  IF live = <<>> THEN <<>>
        ELSE LET i == CHOOSE x \in 1..Len(live) :
                         good(x) /\ \A y \in 1..(x - 1) : ~good(y)
                 c == Head(live[i])
             IN  <<c>> \o Merge([j \in 1..Len(live) |->
                                    SelectSeq(live[j], LAMBDA x : x # c)])

\* cls.__mro__
RECURSIVE Mro(_)
Mro(cls) ==
    <<cls>> \o Merge([i \in 1..Len(Bases(cls)) |-> Mro(Bases(cls)[i])] \o <<Bases(cls)>>)

RECURSIVE Concat(_)
Concat(seqs) == IF seqs = <<>> THEN <<>> ELSE Head(seqs) \o Concat(Tail(seqs))

\* cls.__all_schema_nodes__: the nodes of reversed(cls.__mro__).
AllSchemaNodes(cls) ==
    LET mro == Mro(cls)
    IN  Concat([i \in 1..Len(mro) |-> ClassSchemaNodes(mro[Len(mro) + 1 - i])])

\* _add_node_children: a node is added, or put in the place of the child
\* that has its name.
RECURSIVE AddNodeChildren(_, _)
AddNodeChildren(children, nodes) ==
    IF nodes = <<>> THEN children
    ELSE LET n == Head(nodes)
             exists == \E i \in 1..Len(children) : children[i].name = n.name
         IN  AddNodeChildren(
                 IF exists
                 THEN [i \in 1..Len(children) |->
                          IF children[i].name = n.name THEN n ELSE children[i]]
                 ELSE Append(children, n),
                 Tail(nodes))

\* An instance of a response class.
Instance(cls) == StrictMappingSchema(AddNodeChildren(<<>>, AllSchemaNodes(cls)), required)

GpMeanResponse == Instance("GpMeanResponse")
GpVarResponse == Instance("GpVarResponse")
GpVarDiagResponse == Instance("GpVarDiagResponse")
GpMeanVarResponse == Instance("GpMeanVarResponse")
GpMeanVarDiagResponse == Instance("GpMeanVarDiagResponse")

GpEiRequest_mc_iterations_one == SchemaNode("Int", Range(Whole(1), None), Whole(1))

GpEiRequest_mc_iterations ==
    SchemaNode("Int", Range(Whole(1), None), DEFAULT_EXPECTED_IMPROVEMENT_MC_ITERATIONS)

GpEiRequest ==
    StrictMappingSchema(
        <<Field("points_to_evaluate", ListOfPointsInDomain(required)),
          Field("points_being_sampled",
                ListOfPointsInDomain(Ref("GpEiRequest.points_being_sampled"))),
          Field("mc_iterations", GpEiRequest_mc_iterations),
          Field("max_num_threads",
                SchemaNode("Int", Range(Whole(1), MAX_ALLOWED_NUM_THREADS),
                           DEFAULT_MAX_NUM_THREADS)),
          Field("gp_historical_info", GpHistoricalInfo),
          Field("domain_info", DomainInfo),
          Field("covariance_info",
                CovarianceInfo(Ref("GpEiRequest.covariance_info")))>>,
        required)

GpEiResponse ==
    StrictMappingSchema(
        <<Field("endpoint", SchemaNode("String", NoValidator, required)),
          Field("expected_improvement", ListOfExpectedImprovements)>>,
        required)

RequestSchemas ==
    {"GpNextPointsRequest", "GpNextPointsConstantLiarRequest",
     "GpNextPointsKrigingRequest", "GpHyperOptRequest", "GpMeanVarRequest",
     "GpEiRequest"}

StatusSchemas == {"GpNextPointsStatus", "GpHyperOptStatus"}

ResponseSchemas ==
    ComposedResponses \cup {"GpNextPointsResponse", "GpHyperOptResponse", "GpEiResponse"}

SchemaNames ==
    RequestSchemas \cup StatusSchemas \cup ResponseSchemas
    \cup {"OptimizerInfo", "PositiveFloat", "GradientDescentParametersSchema"}

Schema(name) ==
    CASE name = "GpNextPointsRequest" -> GpNextPointsRequest
      [] name = "GpNextPointsConstantLiarRequest" -> GpNextPointsConstantLiarRequest
      [] name = "GpNextPointsKrigingRequest" -> GpNextPointsKrigingRequest
      [] name = "GpHyperOptRequest" -> GpHyperOptRequest
      [] name = "GpMeanVarRequest" -> GpMeanVarRequest
      [] name = "GpEiRequest" -> GpEiRequest
      [] name = "OptimizerInfo" -> OptimizerInfo(required)
      [] name = "PositiveFloat" -> PositiveFloat
      [] name = "GradientDescentParametersSchema" -> GradientDescentParametersSchema
      [] name = "GpNextPointsStatus" -> GpNextPointsStatus
      [] name = "GpNextPointsResponse" -> GpNextPointsResponse
      [] name = "GpHyperOptStatus" -> GpHyperOptStatus
      [] name = "GpHyperOptResponse" -> GpHyperOptResponse
      [] name = "GpMeanResponse" -> GpMeanResponse
      [] name = "GpVarResponse" -> GpVarResponse
      [] name = "GpVarDiagResponse" -> GpVarDiagResponse
      [] name = "GpMeanVarResponse" -> GpMeanVarResponse
      [] name = "GpMeanVarDiagResponse" -> GpMeanVarDiagResponse
      [] name = "GpEiResponse" -> GpEiResponse

(***************************************************************************)
(* The objects the class bodies create once, when the module is imported:  *)
(* missing=CovarianceInfo().deserialize({}), missing=OptimizerInfo()       *)
(* .deserialize({}) and missing=[].                                        *)
(***************************************************************************)
CovarianceDefaults ==
    {"GpNextPointsRequest.covariance_info", "GpHyperOptRequest.covariance_info",
     "GpMeanVarRequest.covariance_info", "GpEiRequest.covariance_info"}
OptimizerDefaults ==
    {"GpNextPointsRequest.optimizer_info", "GpHyperOptRequest.optimizer_info"}
ListDefaults ==
    {"GpNextPointsRequest.points_being_sampled", "GpEiRequest.points_being_sampled"}
MissingObjects == CovarianceDefaults \cup OptimizerDefaults \cup ListDefaults

ImportedHeap ==
    [id \in MissingObjects |->
        CASE id \in CovarianceDefaults -> deserialize(CovarianceInfo(required), EmptyMap).val
          [] id \in OptimizerDefaults -> deserialize(OptimizerInfo(required), EmptyMap).val
          [] OTHER -> List(<<>>)]

\* What a caller reads in a structure: references followed into the heap.
RECURSIVE View(_, _)
View(v, h) ==
    CASE v.k = "ref" -> View(h[v.id], h)
      [] v.k = "map" -> Map([x \in DOMAIN v.m |-> View(v.m[x], h)])
      [] v.k = "list" -> List([i \in 1..Len(v.l) |-> View(v.l[i], h)])
      [] OTHER -> v

(***************************************************************************)
(* Payloads: for each schema the full payload of its docstring, and the    *)
(* edits a client makes to it.                                             *)
(***************************************************************************)
FullPoint == Map([point |-> List(<<Num(0)>>), value |-> Num(10), value_var |-> Num(1)])
FullHistoricalInfo == Map([points_sampled |-> List([i \in 1..MaxLen |-> FullPoint])])
FullDomainInfo == Map([domain_type |-> TENSOR_PRODUCT_DOMAIN_TYPE, dim |-> Whole(1)])
FullBoundedDomainInfo ==
    Map([domain_type |-> TENSOR_PRODUCT_DOMAIN_TYPE, dim |-> Whole(1),
         domain_bounds |-> List([i \in 1..MaxLen |-> Map([min |-> Num(0), max |-> Num(100)])])])
FullCovarianceInfo ==
    Map([covariance_type |-> SQUARE_EXPONENTIAL_COVARIANCE_TYPE,
         hyperparameters |-> List(<<Num(100), Num(100)>>)])
GradientDescentBlock(gamma) ==
    Map([max_num_steps |-> Whole(100), max_num_restarts |-> Whole(2),
         num_steps_averaged |-> Whole(0), gamma |-> gamma, pre_mult |-> Num(100),
         max_relative_change |-> Num(80), tolerance |-> Num(1)])
NewtonBlock(gamma) ==
    Map([max_num_steps |-> Whole(100), gamma |-> gamma, time_factor |-> Num(100),
         max_relative_change |-> Num(100), tolerance |-> Num(1)])
FullOptimizerInfo ==
    Map([optimizer_type |-> GRADIENT_DESCENT_OPTIMIZER, num_multistarts |-> Whole(200),
         num_random_samples |-> Whole(4000),
         optimizer_parameters |-> GradientDescentBlock(Num(50))])
FullNextPoints ==
    [num_to_sample |-> Whole(1), mc_iterations |-> Whole(10000),
     max_num_threads |-> Whole(1), gp_historical_info |-> FullHistoricalInfo,
     domain_info |-> FullBoundedDomainInfo, covariance_info |-> FullCovarianceInfo,
     optimizer_info |-> FullOptimizerInfo,
     points_being_sampled |-> List(<<List(<<Num(20)>>)>>)]

FullNextPointsStatus ==
    Map([expected_improvement |-> Num(44),
         optimizer_success |->
             Map([gradient_descent_tensor_product_domain_found_update |-> Bool(TRUE)])])
FullHyperOptStatus ==
    Map([log_likelihood |-> Num(-3732), grad_log_likelihood |-> List(<<Num(0), Num(1)>>),
         optimizer_success |-> Map([newton_found_update |-> Bool(TRUE)])])
FullMean == List(<<Num(8), Num(1)>>)
FullVar == List(<<List(<<Num(22), Num(9)>>), List(<<Num(9), Num(99)>>)>>)

Full(name) ==
    CASE name = "GpNextPointsRequest" -> Map(FullNextPoints)
      [] name = "GpNextPointsConstantLiarRequest" ->
            Map(Put(Put(Put(FullNextPoints, "lie_method", Str("constant_liar_max")),
                        "lie_value", Num(30)), "lie_noise_variance", Num(2)))
      [] name = "GpNextPointsKrigingRequest" ->
            Map(Put(Put(FullNextPoints, "std_deviation_coef", Num(-50)),
                    "kriging_noise_variance", Num(2)))
      [] name = "GpHyperOptRequest" ->
            Map([max_num_threads |-> Whole(1), gp_historical_info |-> FullHistoricalInfo,
                 domain_info |-> FullDomainInfo, covariance_info |-> FullCovarianceInfo,
                 hyperparameter_domain_info |-> FullBoundedDomainInfo,
                 optimizer_info |-> FullOptimizerInfo,
                 log_likelihood_info |-> LOG_MARGINAL_LIKELIHOOD])
      [] name = "GpMeanVarRequest" ->
            Map([points_to_sample |-> List(<<List(<<Num(10)>>)>>),
                 gp_historical_info |-> FullHistoricalInfo,
                 domain_info |-> FullDomainInfo, covariance_info |-> FullCovarianceInfo])
      [] name = "GpEiRequest" ->
            Map([points_to_evaluate |-> List(<<List(<<Num(10)>>)>>),
                 points_being_sampled |-> List(<<List(<<Num(20)>>)>>),
                 mc_iterations |-> Whole(10000), max_num_threads |-> Whole(1),
                 gp_historical_info |-> FullHistoricalInfo,
                 domain_info |-> FullDomainInfo, covariance_info |-> FullCovarianceInfo])
      [] name = "OptimizerInfo" -> FullOptimizerInfo
      [] name = "PositiveFloat" -> Num(100)
      [] name = "GradientDescentParametersSchema" -> GradientDescentBlock(Num(50))
      [] name = "GpNextPointsStatus" -> FullNextPointsStatus
      [] name = "GpNextPointsResponse" ->
            Map([endpoint |-> Str("gp_next_points_epi"),
                 points_to_sample |-> List(<<List(<<Num(47)>>)>>),
                 status |-> FullNextPointsStatus])
      [] name = "GpHyperOptStatus" -> FullHyperOptStatus
      [] name = "GpHyperOptResponse" ->
            Map([endpoint |-> Str("gp_hyper_opt"), covariance_info |-> FullCovarianceInfo,
                 status |-> FullHyperOptStatus])
      [] name = "GpMeanResponse" -> Map([endpoint |-> Str("gp_mean"), mean |-> FullMean])
      [] name = "GpVarResponse" -> Map([endpoint |-> Str("gp_var"), var |-> FullVar])
      [] name = "GpVarDiagResponse" ->
            Map([endpoint |-> Str("gp_var_diag"), var |-> FullMean])
      [] name = "GpMeanVarResponse" ->
            Map([endpoint |-> Str("gp_mean_var"), mean |-> FullMean, var |-> FullVar])
      [] name = "GpMeanVarDiagResponse" ->
            Map([endpoint |-> Str("gp_mean_var_diag"), mean |-> FullMean, var |-> FullMean])
      [] name = "GpEiResponse" ->
            Map([endpoint |-> Str("gp_ei"), expected_improvement |-> List(<<Num(19), Num(44)>>)])

Index(l, s) == CHOOSE i \in 1..Len(l) : ToString(i - 1) = s

RECURSIVE Get(_, _)
Get(v, path) ==
    IF path = <<>> THEN v
    ELSE IF v.k = "map" THEN Get(v.m[Head(path)], Tail(path))
    ELSE Get(v.l[Index(v.l, Head(path))], Tail(path))

RECURSIVE PutAt(_, _, _)
PutAt(v, path, new) ==
    IF path = <<>> THEN new
    ELSE IF v.k = "map"
         THEN Map(Put(v.m, Head(path),
                      PutAt(IF Head(path) \in DOMAIN v.m THEN v.m[Head(path)] ELSE null,
                            Tail(path), new)))
         ELSE List([v.l EXCEPT ![Index(v.l, Head(path))] = PutAt(@, Tail(path), new)])

RECURSIVE RemoveAt(_, _)
RemoveAt(v, path) ==
    IF Len(path) = 1 THEN Map(Del(v.m, Head(path)))
    ELSE IF v.k = "map"
         THEN Map([v.m EXCEPT ![Head(path)] = RemoveAt(@, Tail(path))])
         ELSE List([v.l EXCEPT ![Index(v.l, Head(path))] = RemoveAt(@, Tail(path))])

\* The paths of the values inside a value.
RECURSIVE Paths(_)
Paths(v) ==
    CASE v.k = "map" ->
            UNION {{<<x>>} \cup {<<x>> \o q : q \in Paths(v.m[x])} : x \in DOMAIN v.m}
      [] v.k = "list" ->
            UNION {{<<ToString(i - 1)>>} \cup {<<ToString(i - 1)>> \o q : q \in Paths(v.l[i])} :
                      i \in 1..Len(v.l)}
      [] OTHER -> {}

\* The paths of the keys of every mapping of a value.
KeyPaths(v) == {q \in Paths(v) : Get(v, SubSeq(q, 1, Len(q) - 1)).k = "map"}

\* The paths of the mappings of a value, the value itself included.
MapPaths(v) == {q \in {<<>>} \cup Paths(v) : Get(v, q).k = "map"}

\* The paths of the scalars of a value.
RECURSIVE LeafPaths(_)
LeafPaths(v) ==
    CASE v.k = "map" -> UNION {{<<x>> \o q : q \in LeafPaths(v.m[x])} : x \in DOMAIN v.m}
      [] v.k = "list" ->
            UNION {{<<ToString(i - 1)>> \o q : q \in LeafPaths(v.l[i])} : i \in 1..Len(v.l)}
      [] OTHER -> {<<>>}

IsPrefix(p, q) == Len(p) <= Len(q) /\ SubSeq(q, 1, Len(p)) = p

\* Where the optimizer_info block of a payload of the schema is, if anywhere.
OptimizerInfoPath(name) ==
    IF name = "OptimizerInfo" THEN <<>> ELSE <<"optimizer_info">>
HasOptimizerInfo(name) ==
    name \in {"GpNextPointsRequest", "GpNextPointsConstantLiarRequest",
              "GpNextPointsKrigingRequest", "GpHyperOptRequest", "OptimizerInfo"}
OptimizerParametersPath(name) == OptimizerInfoPath(name) \o <<"optimizer_parameters">>

OptionalKeys(node) ==
    {node.children[i].name : i \in {j \in 1..Len(node.children) :
                                       node.children[j].node.missing # required}}

\* The sets of optional top-level fields a client leaves out: any set for
\* the request classes that declare their own fields, and for the two
\* subclasses any set of their own fields with none or all of the inherited.
OmitSets(name) ==
    IF name \in {"GpNextPointsConstantLiarRequest", "GpNextPointsKrigingRequest"}
    THEN LET inherited == OptionalKeys(GpNextPointsRequest)
             own == OptionalKeys(Schema(name)) \ inherited
         IN  {a \cup b : a \in SUBSET own, b \in {{}, inherited}}
    ELSE SUBSET OptionalKeys(Schema(name))

SetValues == {Num(-1), Num(50), Num(150), Str("bogus")}

ParameterBlocks ==
    {GradientDescentBlock(Num(50)), NewtonBlock(Num(50)), NewtonBlock(Num(120)),
     EmptyMap, Map([gamma |-> Num(50)]), Map([unknown_key |-> Str("x")])}

\* The floats a client sends for a float field, and the integers for an
\* integer field.
FloatValues ==
    {NegInf, Num(-100), Num(-1), Num(0), Num(1), Num(50), Num(100), Num(150), Inf, NaN}
IntValues == {Whole(i) : i \in -1..(MaxLen + 1)}

\* The paths of a payload that end in one of the keys, or in an element of
\* the list at one of the keys.
PathsOf(p, keys) ==
    {q \in Paths(p) : \/ q[Len(q)] \in keys
                      \/ Len(q) > 1 /\ q[Len(q) - 1] \in keys /\ Get(p, q).k = "num"}

GradientDescentFloats == {"gamma", "pre_mult", "max_relative_change", "tolerance"}
GradientDescentInts == {"max_num_steps", "max_num_restarts", "num_steps_averaged"}

FloatPaths(name) ==
    CASE name = "PositiveFloat" -> {<<>>}
      [] name = "GradientDescentParametersSchema" -> {<<f>> : f \in GradientDescentFloats}
      [] name \in RequestSchemas ->
            {q \in PathsOf(Full(name), {"hyperparameters", "value_var", "min", "max"}) :
                Get(Full(name), q).k = "num"}
      [] OTHER -> {}

IntPaths(name) ==
    CASE name = "GradientDescentParametersSchema" -> {<<f>> : f \in GradientDescentInts}
      [] name \in RequestSchemas -> PathsOf(Full(name), {"dim"})
      [] OTHER -> {}

\* The lists of coordinates a client sends as the point of a sampled point.
CoordsPaths(name) ==
    IF name \in RequestSchemas
    THEN {q \in PathsOf(Full(name), {"point"}) : Get(Full(name), q).k = "list"}
    ELSE {}
CoordsValues == {List([i \in 1..n |-> Num(0)]) : n \in 0..(MaxLen + 1)}

\* The domain blocks of a request, and for each the block of the other kind.
DomainBlockPaths(name) ==
    IF name \in RequestSchemas
    THEN {q \in {<<"domain_info">>, <<"hyperparameter_domain_info">>} :
             Head(q) \in DOMAIN Full(name).m}
    ELSE {}
OtherDomainBlock(block) ==
    IF "domain_bounds" \in DOMAIN block.m THEN FullDomainInfo ELSE FullBoundedDomainInfo

Edit(kind, keys, path, value) == [kind |-> kind, keys |-> keys, path |-> path, value |-> value]

\* Single edits that each make one field of a payload invalid.
Violations(name) ==
    CASE name = "GradientDescentParametersSchema" ->
            {Edit("int", {}, <<"max_num_steps">>, Whole(0)),
             Edit("float", {}, <<"gamma">>, Num(-1)),
             Edit("float", {}, <<"max_relative_change">>, Num(150)),
             Edit("remove", {}, <<"tolerance">>, null),
             Edit("addkey", {}, <<>>, null)}
      [] name = "GpNextPointsRequest" ->
            {Edit("set", {}, <<"num_to_sample">>, Whole(0)),
             Edit("int", {}, <<"domain_info", "dim">>, Whole(-1)),
             Edit("float", {}, <<"gp_historical_info", "points_sampled", "0", "value_var">>,
                  Num(-1)),
             Edit("float", {}, <<"covariance_info", "hyperparameters", "0">>, Num(0)),
             Edit("remove", {}, <<"gp_historical_info", "points_sampled", "0", "value">>, null),
             Edit("addkey", {}, <<>>, null),
             Edit("addkey", {}, <<"domain_info">>, null),
             Edit("addkey", {}, <<"covariance_info">>, null)}
      [] OTHER -> {}

Edits(name) ==
    LET p == Full(name)
    IN  {Edit("none", {}, <<>>, null)}
        \cup (IF name \in RequestSchemas THEN {Edit("minimal", {}, <<>>, null)} ELSE {})
        \cup {Edit("omit", K, <<>>, null) : K \in OmitSets(name) \ {{}}}
        \cup {Edit("remove", {}, q, null) : q \in KeyPaths(p)}
        \cup {Edit("addkey", {}, q, null) : q \in MapPaths(p)}
        \cup {Edit("set", {}, q, x) :
                 q \in {r \in LeafPaths(p) : ~IsPrefix(OptimizerParametersPath(name), r)},
                 x \in SetValues}
        \cup (IF HasOptimizerInfo(name)
              THEN {Edit("optinfo", {}, <<>>, Map([optimizer_type |-> t,
                                                   optimizer_parameters |-> b])) :
                       t \in OPTIMIZER_TYPES \cup {null}, b \in ParameterBlocks}
              ELSE {})
        \cup {Edit("float", {}, q, x) : q \in FloatPaths(name), x \in FloatValues}
        \cup {Edit("int", {}, q, x) : q \in IntPaths(name), x \in IntValues}
        \cup {Edit("coords", {}, q, x) : q \in CoordsPaths(name), x \in CoordsValues}
        \cup {Edit("swap", {}, q, OtherDomainBlock(Get(p, q))) : q \in DomainBlockPaths(name)}
        \cup {Edit("replace", {}, <<"var">>, x) :
                 x \in IF name \in ComposedResponses /\ "var" \in DOMAIN p.m
                       THEN {FullMean, FullVar} \ {p.m.var} ELSE {}}
        \cup {Edit("pair", {}, <<>>, [a |-> d[1], b |-> d[2]]) :
                 d \in {w \in Violations(name) \X Violations(name) : w[1] # w[2]}}

RECURSIVE OmitAll(_, _)
OmitAll(m, keys) ==
    IF keys = {} THEN m
    ELSE LET x == CHOOSE y \in keys : TRUE IN OmitAll(Del(m, x), keys \ {x})

\* The "Example Minimal Request" of a request class: the required fields,
\* the domain blocks without domain_type.
Minimal(name) ==
    LET req == Map(OmitAll(Full(name).m, OptionalKeys(Schema(name))))
        bare == RemoveAt(req, <<"domain_info", "domain_type">>)
    IN  IF name = "GpHyperOptRequest"
        THEN RemoveAt(bare, <<"hyperparameter_domain_info", "domain_type">>)
        ELSE bare

\* The payload p of the schema after one edit.
ApplyTo(p, name, e) ==
        CASE e.kind = "none" -> p
          [] e.kind = "minimal" -> Minimal(name)
          [] e.kind = "omit" -> Map(OmitAll(p.m, e.keys))
          [] e.kind = "remove" -> RemoveAt(p, e.path)
          [] e.kind = "addkey" -> PutAt(p, e.path \o <<"unknown_key">>, Str("x"))
          [] e.kind \in {"set", "float", "int", "coords", "swap", "replace"} ->
                PutAt(p, e.path, e.value)
          [] e.kind = "optinfo" ->
                LET q == PutAt(p, OptimizerParametersPath(name),
                               e.value.m.optimizer_parameters)
                    t == OptimizerInfoPath(name) \o <<"optimizer_type">>
                IN  IF e.value.m.optimizer_type = null THEN RemoveAt(q, t)
                    ELSE PutAt(q, t, e.value.m.optimizer_type)

Apply(name, e) ==
    IF e.kind = "pair"
    THEN ApplyTo(ApplyTo(Full(name), name, e.value.a), name, e.value.b)
    ELSE ApplyTo(Full(name), name, e)

(***************************************************************************)
(* The operations                                                          *)
(***************************************************************************)
Init ==
    /\ heap = ImportedHeap
    /\ call = null
    /\ held = null
    /\ recheck = null

\* schema().deserialize(payload): one request validated.
Validate(name, e) ==
    /\ call = null
    /\ LET payload == Apply(name, e)
           out == deserialize(Schema(name), payload)
       IN  call' = [schema |-> name, edit |-> e, payload |-> payload, out |-> out,
                    seen |-> IF out.ok THEN View(out.val, heap) ELSE null]
    /\ recheck' = null
    /\ UNCHANGED <<heap, held>>

\* The response is sent and the structure is discarded.
Respond ==
    /\ call # null
    /\ call' = null
    /\ recheck' = null
    /\ UNCHANGED <<heap, held>>

\* The caller passes optimizer_parameters through the schema that
\* OPTIMIZER_TYPES_TO_SCHEMA_CLASSES gives for optimizer_type.
Dispatch ==
    /\ call # null /\ call.out.ok /\ recheck = null
    /\ HasOptimizerInfo(call.schema)
    /\ LET info == Get(View(call.out.val, heap), OptimizerInfoPath(call.schema))
       IN  /\ info.m.optimizer_type # None
           /\ info.m.optimizer_parameters # None
           /\ recheck' = [kind |-> "dispatch", tag |-> info.m.optimizer_type,
                          block |-> info.m.optimizer_parameters,
                          out |-> deserialize(
                                      OPTIMIZER_TYPES_TO_SCHEMA_CLASSES(info.m.optimizer_type),
                                      info.m.optimizer_parameters)]
    /\ UNCHANGED <<heap, call, held>>

\* The caller validates the structure that validation returned.
Revalidate ==
    /\ call # null /\ call.out.ok /\ recheck = null
    /\ LET given == View(call.out.val, heap)
           out == deserialize(Schema(call.schema), given)
       IN  recheck' = [kind |-> "revalidate", tag |-> null, block |-> given, out |-> out]
    /\ UNCHANGED <<heap, call, held>>

\* The payload given to gp_next_points is given to the endpoint of a
\* subclass of its request schema.
ValidateVariant(name) ==
    /\ call # null /\ call.schema = "GpNextPointsRequest" /\ recheck = null
    /\ recheck' = [kind |-> "variant", tag |-> Str(name), block |-> call.payload,
                   out |-> deserialize(Schema(name), call.payload)]
    /\ UNCHANGED <<heap, call, held>>

\* A caller keeps a field of the returned structure that validation filled
\* with the schema's missing object, past the response.
Keep(f) ==
    /\ call # null /\ call.out.ok /\ held = null
    /\ call.out.val.k = "map"
    /\ f \in DOMAIN call.out.val.m
    /\ call.out.val.m[f].k = "ref"
    /\ held' = [obj |-> call.out.val.m[f], writes |-> 0]
    /\ call' = null
    /\ recheck' = null
    /\ UNCHANGED heap

\* The n-th write a caller makes to an object it holds.
Written(obj, n) ==
    CASE obj.k = "list" -> List(Append(obj.l, List(<<Num(70 + n)>>)))
      [] obj.k = "map" /\ "hyperparameters" \in DOMAIN obj.m ->
            Map([obj.m EXCEPT !.hyperparameters = List(<<Num(100 + n)>>)])
      [] OTHER -> Map([obj.m EXCEPT !.num_multistarts = Whole(n + 1),
                                    !.optimizer_type = NEWTON_OPTIMIZER])

\* The caller writes to the object it kept.
Mutate ==
    /\ held # null
    /\ held.writes < MaxWrites
    /\ heap' = [heap EXCEPT ![held.obj.id] = Written(@, held.writes)]
    /\ held' = [held EXCEPT !.writes = @ + 1]
    /\ UNCHANGED <<call, recheck>>

ValidateAny == \E name \in SchemaNames : \E e \in Edits(name) : Validate(name, e)

ValidateAnyVariant ==
    \E name \in {"GpNextPointsConstantLiarRequest", "GpNextPointsKrigingRequest"} :
        ValidateVariant(name)

Next == ValidateAny \/ Respond \/ Dispatch \/ Revalidate \/ ValidateAnyVariant

\* Callers that treat the returned structures as read-only.
Spec == Init /\ [][Next]_vars

NextMut == ValidateAny \/ Respond \/ (\E f \in {"covariance_info", "optimizer_info", "points_being_sampled"} : Keep(f)) \/ Mutate

\* Callers that also write to the structures they were returned.
SpecMut == Init /\ [][NextMut]_vars

(***************************************************************************)
(* The claims                                                              *)
(***************************************************************************)
Called == call # null
Accepted == call # null /\ call.out.ok
ErrorAt(path, msg) == [path |-> path, msg |-> msg] \in call.out.errs

\* path is present in payload v: every key on the way is there.
RECURSIVE Present(_, _)
Present(v, path) ==
    \/ path = <<>>
    \/ /\ v.k = "map"
       /\ Head(path) \in DOMAIN v.m
       /\ Present(v.m[Head(path)], Tail(path))

\* The mappings the source declares with unknown='preserve'.
OpenMappings(name) ==
    CASE name \in StatusSchemas -> {<<"optimizer_success">>}
      [] name \in {"GpNextPointsResponse", "GpHyperOptResponse"} ->
            {<<"status", "optimizer_success">>}
      [] HasOptimizerInfo(name) -> {OptimizerParametersPath(name)}
      [] OTHER -> {}

\* C1: a payload made of an accepted payload and one undeclared key in a
\* closed mapping of it, at the top level or nested, is rejected with
\* "Unrecognized keys" at that mapping, and is accepted again without the key.
C1_UnknownKeyRejected ==
    (/\ Called
     /\ call.edit.kind = "addkey"
     /\ call.edit.path \notin OpenMappings(call.schema))
    => /\ ~call.out.ok
       /\ ErrorAt(call.edit.path, "Unrecognized keys in mapping")
       /\ deserialize(Schema(call.schema),
                      RemoveAt(call.payload, call.edit.path \o <<"unknown_key">>)).ok

C1_Witness ==
    /\ Called
    /\ call.schema = "GpNextPointsRequest"
    /\ call.edit.kind = "addkey"
    /\ call.edit.path = <<"gp_historical_info", "points_sampled", "0">>
    /\ "unknown_key" \in DOMAIN Get(call.payload, call.edit.path).m
    /\ ~call.out.ok

\* C2: whatever optimizer_type (one of the three tags, or none) and whatever
\* mapping a payload gives as optimizer_parameters, the validation of the
\* OptimizerInfo block, alone or in a request, succeeds, reports no error
\* under optimizer_parameters and returns that mapping unchanged.
C2_ParametersNotValidated ==
    /\ (Called /\ call.edit.kind = "optinfo")
       => /\ call.out.ok
          /\ Get(call.seen, OptimizerParametersPath(call.schema))
                = call.edit.value.m.optimizer_parameters
    /\ (Called /\ HasOptimizerInfo(call.schema))
       => \A err \in call.out.errs :
             ~IsPrefix(OptimizerParametersPath(call.schema), err.path)

\* Newton with gamma 0.5 passes the outer validation and fails the caller's
\* validation against the schema the table selects.
C2_Witness ==
    /\ Accepted
    /\ call.schema = "GpHyperOptRequest"
    /\ call.edit.kind = "optinfo"
    /\ call.edit.value.m.optimizer_type = NEWTON_OPTIMIZER
    /\ call.edit.value.m.optimizer_parameters = NewtonBlock(Num(50))
    /\ recheck # null /\ recheck.kind = "dispatch"
    /\ ~recheck.out.ok

\* The blocks each tag's schema accepts, among those the clients send.
AcceptedBlocks(tag) ==
    CASE tag = NULL_OPTIMIZER -> {EmptyMap}
      [] tag = NEWTON_OPTIMIZER -> {NewtonBlock(Num(120))}
      [] tag = GRADIENT_DESCENT_OPTIMIZER -> {GradientDescentBlock(Num(50))}

\* C3: validating a parameter block through the schema the table selects for
\* its tag applies that tag's bounds and no other's: with gamma = 0.5 a
\* Newton block is rejected and a gradient-descent block is accepted.
C3_DispatchAppliesTagBounds ==
    (recheck # null /\ recheck.kind = "dispatch")
    => /\ recheck.tag \in OPTIMIZER_TYPES
       /\ recheck.out.ok <=> recheck.block \in AcceptedBlocks(recheck.tag)
       /\ (recheck.tag = NEWTON_OPTIMIZER /\ recheck.block = NewtonBlock(Num(50)))
          => [path |-> <<"gamma">>, msg |-> "is less than minimum value"]
                \in recheck.out.errs

C3_Witness ==
    /\ recheck # null /\ recheck.kind = "dispatch"
    /\ recheck.tag = GRADIENT_DESCENT_OPTIMIZER
    /\ recheck.block.m.gamma = Num(50)
    /\ recheck.out.ok

C5_IndependentDefaults == Accepted => View(call.out.val, heap) = call.seen

\* C6: a validation returns what the same validation returns when it is the
\* first one after the module is imported, whatever calls and caller writes
\* came before it.
C6_NoCrossRequestState ==
    Called =>
       LET first == deserialize(Schema(call.schema), call.payload)
       IN  /\ call.out.ok = first.ok
           /\ call.out.errs = first.errs
           /\ first.ok => call.seen = View(first.val, ImportedHeap)

Revalidated == call # null /\ recheck # null /\ recheck.kind = "revalidate"

\* C7 as stated: validating the structure that validation returned succeeds
\* and yields the same structure.
C7_Idempotent ==
    Revalidated => /\ recheck.out.ok
                   /\ View(recheck.out.val, heap) = call.seen

\* The normalized structure has None where the schema has a sequence or a
\* mapping: hyperparameters or optimizer_parameters.
NoneInSequenceOrMapping(name, seen) ==
    \/ /\ name \in RequestSchemas \cup {"GpHyperOptResponse"}
       /\ seen.m.covariance_info.m.hyperparameters = None
    \/ /\ HasOptimizerInfo(name)
       /\ Get(seen, OptimizerParametersPath(name)) = None

\* C7 amended: validating the structure that validation returned yields the
\* same structure when hyperparameters and optimizer_parameters are not None
\* in it, and fails when one of them is None.
C7_IdempotentUnlessNone ==
    Revalidated =>
       IF NoneInSequenceOrMapping(call.schema, call.seen)
       THEN ~recheck.out.ok
       ELSE /\ recheck.out.ok
            /\ View(recheck.out.val, heap) = call.seen

\* A constant-liar request without lie_value and without num_to_sample: None
\* and 1 in the structure, which validates to itself.
C7_Witness ==
    /\ Revalidated
    /\ call.schema = "GpNextPointsConstantLiarRequest"
    /\ call.edit.kind = "omit"
    /\ call.edit.keys = {"lie_value", "lie_method", "lie_noise_variance"}
    /\ call.seen.m.lie_value = None
    /\ recheck.out.ok
    /\ View(recheck.out.val, heap) = call.seen

DomainInfoOmitted ==
    /\ Called
    /\ call.schema \in {"GpMeanVarRequest", "GpEiRequest"}
    /\ call.edit.kind = "remove"
    /\ call.edit.path = <<"domain_info">>

NextPointsFamily ==
    {"GpNextPointsRequest", "GpNextPointsConstantLiarRequest", "GpNextPointsKrigingRequest"}

\* The fields C9 names as required, by request.
NamedRequired(name) ==
    {<<"gp_historical_info">>, <<"domain_info">>,
     <<"gp_historical_info", "points_sampled">>, <<"domain_info", "dim">>}
    \cup (IF name = "GpHyperOptRequest"
          THEN {<<"hyperparameter_domain_info">>, <<"hyperparameter_domain_info", "dim">>,
                <<"hyperparameter_domain_info", "domain_bounds">>}
          ELSE {<<"domain_info", "domain_bounds">>})

\* The default each optional top-level field is declared with.
DeclaredDefault(f) ==
    CASE f = "num_to_sample" -> Whole(1)
      [] f = "mc_iterations" -> DEFAULT_EXPECTED_IMPROVEMENT_MC_ITERATIONS
      [] f = "max_num_threads" -> DEFAULT_MAX_NUM_THREADS
      [] f = "covariance_info" ->
            Map([covariance_type |-> SQUARE_EXPONENTIAL_COVARIANCE_TYPE,
                 hyperparameters |-> None])
      [] f = "optimizer_info" ->
            Map([optimizer_type |-> None, num_multistarts |-> None,
                 num_random_samples |-> None, optimizer_parameters |-> None])
      [] f = "points_being_sampled" -> List(<<>>)
      [] f = "log_likelihood_info" -> LOG_MARGINAL_LIKELIHOOD
      [] f = "lie_method" -> DEFAULT_CONSTANT_LIAR_METHOD
      [] f = "lie_value" -> None
      [] f = "lie_noise_variance" -> DEFAULT_CONSTANT_LIAR_LIE_NOISE_VARIANCE
      [] f = "std_deviation_coef" -> DEFAULT_KRIGING_STD_DEVIATION_COEF
      [] f = "kriging_noise_variance" -> DEFAULT_KRIGING_NOISE_VARIANCE

\* C9: a gp_next_points or gp_hyper_opt request without one of its required
\* fields is rejected with "Required" at the field; a request without any
\* set of its optional fields is accepted and has each of them at its
\* declared default.
C9_RequiredAndOptional ==
    (Called /\ call.schema \in NextPointsFamily \cup {"GpHyperOptRequest"})
    => /\ (call.edit.kind = "remove" /\ call.edit.path \in NamedRequired(call.schema))
          => /\ ~call.out.ok
             /\ ErrorAt(call.edit.path, "Required")
       /\ call.edit.kind = "omit"
          => /\ call.out.ok
             /\ \A f \in call.edit.keys :
                   /\ f \notin DOMAIN call.payload.m
                   /\ call.seen.m[f] = DeclaredDefault(f)

C9_Witness ==
    /\ Accepted
    /\ call.schema = "GpHyperOptRequest"
    /\ call.edit.kind = "omit"
    /\ call.edit.keys = {"max_num_threads", "covariance_info", "optimizer_info",
                         "log_likelihood_info"}
    /\ DOMAIN call.payload.m = {"gp_historical_info", "domain_info",
                                "hyperparameter_domain_info"}

\* C10: the gp_ei request with only points_to_evaluate, gp_historical_info
\* and domain_info {dim} is accepted, with the default constants for
\* mc_iterations and max_num_threads, [] for points_being_sampled, the
\* tensor-product domain type and the square-exponential covariance with
\* hyperparameters None.
C10_MinimalEiRequest ==
    (Called /\ call.schema = "GpEiRequest" /\ call.edit.kind = "minimal")
    => /\ DOMAIN call.payload.m = {"points_to_evaluate", "gp_historical_info", "domain_info"}
       /\ DOMAIN call.payload.m.domain_info.m = {"dim"}
       /\ call.out.ok
       /\ call.seen.m.mc_iterations = DEFAULT_EXPECTED_IMPROVEMENT_MC_ITERATIONS
       /\ call.seen.m.max_num_threads = DEFAULT_MAX_NUM_THREADS
       /\ call.seen.m.points_being_sampled = List(<<>>)
       /\ call.seen.m.domain_info.m.domain_type = TENSOR_PRODUCT_DOMAIN_TYPE
       /\ call.seen.m.covariance_info
             = Map([covariance_type |-> SQUARE_EXPONENTIAL_COVARIANCE_TYPE,
                    hyperparameters |-> None])

C10_Witness ==
    /\ Accepted
    /\ call.schema = "GpEiRequest"
    /\ call.edit.kind = "minimal"
    /\ call.seen.m.points_to_evaluate = call.payload.m.points_to_evaluate
    /\ call.seen.m.domain_info.m.dim = Whole(1)

\* The call gave a float to a PositiveFloat node: the node alone, or an
\* element of the hyperparameters of a covariance_info.
PositiveFloatGiven ==
    /\ Called
    /\ call.edit.kind = "float"
    /\ \/ call.schema = "PositiveFloat"
       \/ /\ Len(call.edit.path) > 1
          /\ call.edit.path[Len(call.edit.path) - 1] = "hyperparameters"

\* C11: PositiveFloat, alone and as an element of a hyperparameters list,
\* accepts a float v exactly when 0.0 < v < +infinity: 0.0, the negative
\* values, -infinity, +infinity and NaN are rejected with the validator's
\* error at the value, every other value is accepted and returned.
C11_PositiveFloatOpenInterval ==
    PositiveFloatGiven
    => /\ call.out.ok <=> (call.edit.value.k = "num" /\ call.edit.value.n > 0)
       /\ ~call.out.ok
          => call.out.errs = {[path |-> call.edit.path, msg |-> "must be positive and finite"]}
       /\ call.out.ok => Get(call.seen, call.edit.path) = call.edit.value

C11_Witness ==
    /\ PositiveFloatGiven
    /\ call.schema = "GpHyperOptRequest"
    /\ call.edit.path = <<"covariance_info", "hyperparameters", "1">>
    /\ call.edit.value = NaN
    /\ ~call.out.ok

\* v >= n and v <= n on floats, n in hundredths; False for NaN.
AtLeast(v, n) == v.k = "inf" \/ (v.k = "num" /\ v.n >= n)
AtMost(v, n) == v.k = "-inf" \/ (v.k = "num" /\ v.n <= n)

\* The blocks with the seven gradient-descent fields, each within its bounds.
GradientDescentInRange(p) ==
    /\ DOMAIN p.m = GradientDescentFloats \cup GradientDescentInts
    /\ AtLeast(p.m.max_num_steps, 100)
    /\ AtLeast(p.m.max_num_restarts, 100)
    /\ AtLeast(p.m.num_steps_averaged, 0)
    /\ AtLeast(p.m.gamma, 0)
    /\ AtLeast(p.m.pre_mult, 0)
    /\ AtLeast(p.m.max_relative_change, 0) /\ AtMost(p.m.max_relative_change, 100)
    /\ AtLeast(p.m.tolerance, 0)

\* C12: GradientDescentParametersSchema accepts a block of integers and
\* floats exactly when the block has the seven fields and no other, with
\* max_num_steps >= 1, max_num_restarts >= 1, num_steps_averaged >= 0,
\* gamma >= 0, pre_mult >= 0, 0 <= max_relative_change <= 1, tolerance >= 0.
C12_GradientDescentAcceptsIff ==
    (/\ Called
     /\ call.schema = "GradientDescentParametersSchema"
     /\ call.edit.kind \in {"none", "remove", "addkey", "float", "int"})
    => (call.out.ok <=> GradientDescentInRange(call.payload))

\* The edit of the call is at the value_var of a sampled point of a request.
AtValueVar ==
    /\ Called
    /\ call.schema \in RequestSchemas
    /\ Len(call.edit.path) = 4
    /\ SubSeq(call.edit.path, 1, 2) = <<"gp_historical_info", "points_sampled">>
    /\ call.edit.path[4] = "value_var"

\* C13: in every sampled point of every request, a value_var below 0.0 makes
\* the request fail with a range error at that value_var, a value_var >= 0.0
\* is accepted and returned as given, and a point without value_var is
\* accepted with value_var 0.0.
C13_ValueVarNonNegative ==
    /\ (AtValueVar /\ call.edit.kind = "float")
       => /\ (call.edit.value = NegInf
               \/ (call.edit.value.k = "num" /\ call.edit.value.n < 0))
             => /\ ~call.out.ok
                /\ call.out.errs =
                      {[path |-> call.edit.path, msg |-> "is less than minimum value"]}
          /\ AtLeast(call.edit.value, 0)
             => /\ call.out.ok
                /\ Get(call.seen, call.edit.path) = call.edit.value
    /\ (AtValueVar /\ call.edit.kind = "remove")
       => /\ ~Present(call.payload, call.edit.path)
          /\ call.out.ok
          /\ Get(call.seen, call.edit.path) = Num(0)

C13_Witness ==
    /\ AtValueVar
    /\ call.schema = "GpEiRequest"
    /\ call.edit.kind = "float"
    /\ call.edit.value = Num(-1)
    /\ ErrorAt(<<"gp_historical_info", "points_sampled", "0", "value_var">>,
               "is less than minimum value")

\* The schemas that hold optimizer_parameters or optimizer_success.
WithOpenMapping ==
    {"OptimizerInfo", "GpNextPointsStatus", "GpHyperOptStatus", "GpNextPointsResponse",
     "GpHyperOptResponse"}

\* C14: optimizer_parameters and optimizer_success are open: a key added to
\* them, or a value changed in them, causes no error and is in the output
\* with the mapping's other keys; a key added to any other mapping of the
\* same schemas is rejected as unrecognized.
C14_OpenMappings ==
    (Called /\ call.schema \in WithOpenMapping)
    => /\ (call.edit.kind = "addkey" /\ call.edit.path \in OpenMappings(call.schema))
          => /\ call.out.ok
             /\ "unknown_key" \in DOMAIN Get(call.seen, call.edit.path).m
             /\ Get(call.seen, call.edit.path) = Get(call.payload, call.edit.path)
       /\ (call.edit.kind = "addkey" /\ call.edit.path \notin OpenMappings(call.schema))
          => /\ ~call.out.ok
             /\ ErrorAt(call.edit.path, "Unrecognized keys in mapping")
       /\ (/\ call.edit.kind = "set"
           /\ \E q \in OpenMappings(call.schema) : IsPrefix(q, call.edit.path))
          => /\ call.out.ok
             /\ Get(call.seen, call.edit.path) = call.edit.value

C14_Witness ==
    /\ Accepted
    /\ call.schema = "GpNextPointsResponse"
    /\ call.edit.kind = "addkey"
    /\ call.edit.path = <<"status", "optimizer_success">>
    /\ DOMAIN call.seen.m.status.m.optimizer_success.m =
          {"gradient_descent_tensor_product_domain_found_update", "unknown_key"}

FieldNames(children) == {children[i].name : i \in 1..Len(children)}
Child(node, name) ==
    node.children[CHOOSE i \in 1..Len(node.children) : node.children[i].name = name].node

C16_ComposedPartsDisjoint ==
    (Called /\ call.schema \in ComposedResponses)
    => LET parts == Bases(call.schema)
           fields(cls) == FieldNames(AllSchemaNodes(cls))
           node == Schema(call.schema)
       IN  /\ Len(parts) = 2
           /\ fields(parts[1]) \cap fields(parts[2]) = {}
           /\ FieldNames(node.children) = fields(parts[1]) \cup fields(parts[2])
           /\ Len(node.children) = Cardinality(FieldNames(node.children))
           /\ \A i \in 1..2 : \A f \in fields(parts[i]) :
                 Child(node, f) = Child(Instance(parts[i]), f)
           /\ call.edit.kind = "none"
              => /\ DOMAIN call.payload.m = FieldNames(node.children)
                 /\ call.out.ok
                 /\ call.seen = call.payload

C16_Witness ==
    /\ Accepted
    /\ call.schema = "GpMeanVarDiagResponse"
    /\ call.edit.kind = "none"
    /\ DOMAIN call.seen.m = {"endpoint", "mean", "var"}
    /\ call.seen.m.var = FullMean

\* The fields a subclass of GpNextPointsRequest adds, with their documented
\* defaults.
VariantDefaults(name) ==
    IF name = "GpNextPointsConstantLiarRequest"
    THEN [lie_method |-> DEFAULT_CONSTANT_LIAR_METHOD, lie_value |-> None,
          lie_noise_variance |-> DEFAULT_CONSTANT_LIAR_LIE_NOISE_VARIANCE]
    ELSE [std_deviation_coef |-> DEFAULT_KRIGING_STD_DEVIATION_COEF,
          kriging_noise_variance |-> DEFAULT_KRIGING_NOISE_VARIANCE]

VariantValidated == call # null /\ recheck # null /\ recheck.kind = "variant"

\* C17: the constant-liar and the kriging request schema accept a payload
\* exactly when the gp_next_points schema accepts it, reject it with the
\* same errors, and return the same value for every field of the base
\* schema, and their own fields at their defaults.
C17_VariantsExtendBase ==
    VariantValidated
    => /\ recheck.block = call.payload
       /\ recheck.out.ok = call.out.ok
       /\ recheck.out.errs = call.out.errs
       /\ recheck.out.ok
          => LET seen == View(recheck.out.val, heap)
                 own == VariantDefaults(recheck.tag.s)
             IN  /\ DOMAIN seen.m = DOMAIN call.seen.m \cup DOMAIN own
                 /\ \A f \in DOMAIN call.seen.m : seen.m[f] = call.seen.m[f]
                 /\ \A f \in DOMAIN own : seen.m[f] = own[f]

C17_Witness ==
    /\ VariantValidated
    /\ recheck.tag = Str("GpNextPointsKrigingRequest")
    /\ call.edit.kind = "minimal"
    /\ recheck.out.ok
    /\ View(recheck.out.val, heap).m.kriging_noise_variance = DEFAULT_KRIGING_NOISE_VARIANCE
    /\ View(recheck.out.val, heap).m.num_to_sample = Whole(1)

\* The errors an edit gives when it is the only edit of the payload.
Alone(name, e) == deserialize(Schema(name), ApplyTo(Full(name), name, e)).errs

PairGiven == Called /\ call.edit.kind = "pair"

\* C18 as stated: a payload with two violations is rejected, without a
\* normalized structure, and the error has what each violation gives alone.
C18_ErrorsAggregate ==
    PairGiven
    => /\ ~call.out.ok
       /\ call.out.val = null
       /\ Alone(call.schema, call.edit.value.a) \subseteq call.out.errs
       /\ Alone(call.schema, call.edit.value.b) \subseteq call.out.errs

\* The unknown key that edit e adds to a mapping keeps error x, of a field
\* inside that mapping, out of the report.
Masks(e, x) ==
    /\ e.kind = "addkey"
    /\ IsPrefix(e.path, x.path)
    /\ x # [path |-> e.path, msg |-> "Unrecognized keys in mapping"]

\* C18 amended: a payload with two violations is rejected, without a
\* normalized structure, and the error has what each violation gives alone,
\* except the errors of the fields inside a mapping that has an unknown key:
\* for that mapping the unknown key is the only error reported.
C18_ErrorsAggregateUnlessUnknownKey ==
    PairGiven
    => LET a == call.edit.value.a
           b == call.edit.value.b
       IN  /\ ~call.out.ok
           /\ call.out.val = null
           /\ call.out.errs =
                 {x \in Alone(call.schema, a) \cup Alone(call.schema, b) :
                     ~Masks(a, x) /\ ~Masks(b, x)}

\* Two range violations in two nested composites: both are reported.
C18_Witness ==
    /\ PairGiven
    /\ call.schema = "GpNextPointsRequest"
    /\ call.edit.value.a.path = <<"domain_info", "dim">>
    /\ call.edit.value.b.path = <<"gp_historical_info", "points_sampled", "0", "value_var">>
    /\ call.out.errs =
          {[path |-> <<"domain_info", "dim">>, msg |-> "is less than minimum value"],
           [path |-> <<"gp_historical_info", "points_sampled", "0", "value_var">>,
            msg |-> "is less than minimum value"]}

Last(path) == path[Len(path)]

\* The call changed one field of a domain block or of a sampled point so
\* that it disagrees with another field: a bound, dim, or the coordinates.
CrossFieldGiven ==
    /\ Called
    /\ call.schema \in RequestSchemas
    /\ \/ call.edit.kind = "float" /\ Last(call.edit.path) \in {"min", "max"}
       \/ call.edit.kind = "int" /\ Last(call.edit.path) = "dim"
       \/ call.edit.kind = "coords"

\* C19: no check relates the fields of a domain: with min above max, with
\* a number of domain_bounds other than dim, or with a number of
\* coordinates of a sampled point other than dim, the request is accepted
\* and returned as given; only dim below 0 is rejected.
C19_NoCrossFieldChecks ==
    CrossFieldGiven
    => /\ call.out.ok <=> (Last(call.edit.path) = "dim" => call.edit.value.n >= 0)
       /\ call.out.ok => Get(call.seen, call.edit.path) = call.edit.value
       /\ ~call.out.ok
          => call.out.errs = {[path |-> call.edit.path, msg |-> "is less than minimum value"]}

\* min 1.5 above max 1.0, and dim 1 with MaxLen bounds.
C19_Witness ==
    /\ CrossFieldGiven
    /\ call.schema = "GpNextPointsRequest"
    /\ call.edit.path = <<"domain_info", "domain_bounds", "0", "min">>
    /\ call.out.ok
    /\ call.seen.m.domain_info.m.domain_bounds.l[1].m.min.k = "num"
    /\ call.seen.m.domain_info.m.domain_bounds.l[1].m.min.n
          > call.seen.m.domain_info.m.domain_bounds.l[1].m.max.n
    /\ Len(call.seen.m.domain_info.m.domain_bounds.l) * 100 # call.seen.m.domain_info.m.dim.n

\* The fields declared DomainInfo() and the fields declared BoundedDomainInfo().
UnboundedFields ==
    {<<"GpHyperOptRequest", "domain_info">>, <<"GpMeanVarRequest", "domain_info">>,
     <<"GpEiRequest", "domain_info">>}
BoundedFields ==
    {<<name, "domain_info">> : name \in NextPointsFamily}
    \cup {<<"GpHyperOptRequest", "hyperparameter_domain_info">>}

\* C20: a block with domain_bounds where the request declares a DomainInfo
\* is rejected with Unrecognized keys at the block, and a block without
\* domain_bounds where the request declares a BoundedDomainInfo is rejected
\* with Required at its domain_bounds.
C20_DomainBlocksNotInterchangeable ==
    (Called /\ call.edit.kind = "swap")
    => LET field == <<call.schema, call.edit.path[1]>>
           block == Get(call.payload, call.edit.path)
       IN  /\ field \in UnboundedFields \cup BoundedFields
           /\ field \in UnboundedFields
              => /\ "domain_bounds" \in DOMAIN block.m
                 /\ call.out.errs =
                       {[path |-> call.edit.path, msg |-> "Unrecognized keys in mapping"]}
           /\ field \in BoundedFields
              => /\ "domain_bounds" \notin DOMAIN block.m
                 /\ call.out.errs =
                       {[path |-> call.edit.path \o <<"domain_bounds">>, msg |-> "Required"]}

C20_Witness ==
    /\ Called
    /\ call.schema = "GpHyperOptRequest"
    /\ call.edit.kind = "swap"
    /\ call.edit.path = <<"domain_info">>
    /\ "domain_bounds" \in DOMAIN call.payload.m.domain_info.m
    /\ ~call.out.ok
====
